---------------------------- MODULE Spec2Model ----------------------------
(***************************************************************************)
(* A model of invoice_qc: the validator (validator.py), the amount parser,  *)
(* the line item parser and the batch assembler of the extractor           *)
(* (extractor.py) and the command line entry points (cli.py).              *)
(*                                                                         *)
(* Representation of Python values.  A Python value is a tagged record:    *)
(*   None              [tag |-> "None"]                                    *)
(*   a str             [tag |-> "str", s |-> <sequence of characters>]     *)
(*   an int or float   [tag |-> "num", n |-> <integer, in hundredths>]     *)
(*   a bool            [tag |-> "bool", b |-> TRUE or FALSE]               *)
(* A text is the sequence of its characters, so that strip, upper, lower,  *)
(* endswith and strptime are computed on the characters.  Amounts are      *)
(* exact integers counted in hundredths (100.0 is 10000); the rounding of  *)
(* binary floating point is not modelled.  A float that _parse_float reads *)
(* with more than two decimal places carries its digits in n and their     *)
(* number in a field places.  A dict is a record with every                *)
(* key the code reads: dict.get of a key that is not there is None.        *)
(* Error codes and field names are literals of the code and are plain      *)
(* strings.                                                                *)
(***************************************************************************)
EXTENDS Integers, Sequences, FiniteSets, TLC

VARIABLES pc, command, pdf_dir, unreadable, invoices, results, summary,
          report, output, status,
          arg, ret   \* the argument and the value returned by an extractor
                     \* function called on its own

vars == <<pc, command, pdf_dir, unreadable, invoices, results, summary,
          report, output, status, arg, ret>>

---------------------------------------------------------------------------
(* Python values *)

None == [tag |-> "None"]

Str(s) == [tag |-> "str", s |-> s]

Num(n) == [tag |-> "num", n |-> n]

Bool(b) == [tag |-> "bool", b |-> b]

EmptyStr == Str(<<>>)

IsStr(v) == v.tag = "str"

\* isinstance(v, (int, float))
IsNumber(v) == v.tag = "num"

\* Python truthiness: None, "", 0 and False are false
Truthy(v) ==
    CASE v.tag = "None" -> FALSE
      [] v.tag = "str"  -> v.s # <<>>
      [] v.tag = "num"  -> v.n # 0
      [] v.tag = "bool" -> v.b

\* a or b
PyOr(a, b) == IF Truthy(a) THEN a ELSE b

\* v in (None, "")
NoneOrEmpty(v) == v = None \/ v = EmptyStr

Abs(n) == IF n < 0 THEN -n ELSE n

Max(a, b) == IF a >= b THEN a ELSE b

---------------------------------------------------------------------------
(* Characters *)

Digits == <<"0", "1", "2", "3", "4", "5", "6", "7", "8", "9">>

IsDigit(c) == \E i \in 1..10 : Digits[i] = c

DigitVal(c) == (CHOOSE i \in 1..10 : Digits[i] = c) - 1

LowerLetters == <<"a", "b", "c", "d", "e", "f", "g", "h", "i", "j", "k", "l", "m",
                  "n", "o", "p", "q", "r", "s", "t", "u", "v", "w", "x", "y", "z">>

UpperLetters == <<"A", "B", "C", "D", "E", "F", "G", "H", "I", "J", "K", "L", "M",
                  "N", "O", "P", "Q", "R", "S", "T", "U", "V", "W", "X", "Y", "Z">>

\* str.upper, one character
UpperChar(c) ==
    IF \E i \in 1..26 : LowerLetters[i] = c
    THEN UpperLetters[CHOOSE i \in 1..26 : LowerLetters[i] = c]
    ELSE c

\* str.lower, one character
LowerChar(c) ==
    IF \E i \in 1..26 : UpperLetters[i] = c
    THEN LowerLetters[CHOOSE i \in 1..26 : UpperLetters[i] = c]
    ELSE c

Upper(s) == [i \in 1..Len(s) |-> UpperChar(s[i])]

Lower(s) == [i \in 1..Len(s) |-> LowerChar(s[i])]

\* s.endswith(suffix)
EndsWith(s, suffix) ==
    /\ Len(s) >= Len(suffix)
    /\ SubSeq(s, Len(s) - Len(suffix) + 1, Len(s)) = suffix

RECURSIVE LStrip(_)
LStrip(s) == IF s # <<>> /\ Head(s) = " " THEN LStrip(Tail(s)) ELSE s

RECURSIVE RStrip(_)
RStrip(s) ==
    IF s # <<>> /\ s[Len(s)] = " " THEN RStrip(SubSeq(s, 1, Len(s) - 1)) ELSE s

\* str.strip
Strip(s) == RStrip(LStrip(s))

\* s.split(sep): the pieces between the occurrences of the character sep
RECURSIVE SplitOn(_, _)
SplitOn(s, sep) ==
    IF \A i \in 1..Len(s) : s[i] # sep
    THEN <<s>>
    ELSE LET k == CHOOSE i \in 1..Len(s) :
                     s[i] = sep /\ \A j \in 1..(i - 1) : s[j] # sep
         IN  <<SubSeq(s, 1, k - 1)>> \o SplitOn(SubSeq(s, k + 1, Len(s)), sep)

IsDigitRun(s) == s # <<>> /\ \A i \in 1..Len(s) : IsDigit(s[i])

RECURSIVE ToInt(_)
ToInt(s) ==
    IF s = <<>> THEN 0
    ELSE 10 * ToInt(SubSeq(s, 1, Len(s) - 1)) + DigitVal(s[Len(s)])

---------------------------------------------------------------------------
(* validator.py *)

REQUIRED_FIELDS ==
    <<"invoice_number", "invoice_date", "seller_name", "buyer_name",
      "currency", "gross_total">>

\* the value _parse_date returns for a text that is no date
NoDate == <<>>

IsLeap(y) == (y % 4 = 0 /\ y % 100 # 0) \/ y % 400 = 0

DaysInMonth(y, m) ==
    IF m = 2 THEN (IF IsLeap(y) THEN 29 ELSE 28)
    ELSE IF m \in {4, 6, 9, 11} THEN 30 ELSE 31

\* datetime.strptime(value, fmt).date() for a format of a four digit year,
\* a month and a day joined by sep; yearFirst is %Y<sep>%m<sep>%d, otherwise
\* %d<sep>%m<sep>%Y.  NoDate stands for ValueError.
Strptime(value, sep, yearFirst) ==
    LET parts == SplitOn(value, sep) IN
    IF Len(parts) # 3 \/ \E i \in 1..3 : ~IsDigitRun(parts[i]) THEN NoDate
    ELSE LET ys == IF yearFirst THEN parts[1] ELSE parts[3]
             ms == parts[2]
             ds == IF yearFirst THEN parts[3] ELSE parts[1]
             y  == ToInt(ys)
             m  == ToInt(ms)
             d  == ToInt(ds)
         IN  IF /\ Len(ys) = 4 /\ y >= 1
                /\ Len(ms) \in 1..2 /\ m \in 1..12
                /\ Len(ds) \in 1..2 /\ d >= 1 /\ d <= DaysInMonth(y, m)
             THEN <<y, m, d>>
             ELSE NoDate

\* the formats of _parse_date, in the order they are tried
DateFormats ==
    << [sep |-> "-", yearFirst |-> TRUE],
       [sep |-> "-", yearFirst |-> FALSE],
       [sep |-> "/", yearFirst |-> FALSE],
       [sep |-> ".", yearFirst |-> FALSE],
       [sep |-> "/", yearFirst |-> TRUE] >>

RECURSIVE TryFormats(_, _)
TryFormats(value, i) ==
    IF i > Len(DateFormats) THEN NoDate
    ELSE LET got == Strptime(value, DateFormats[i].sep, DateFormats[i].yearFirst)
         IN  IF got # NoDate THEN got ELSE TryFormats(value, i + 1)

\* _parse_date(value), value a str
_parse_date(value) ==
    IF ~Truthy(value) THEN NoDate ELSE TryFormats(Strip(value.s), 1)

\* a <= b on dates
DateLE(a, b) ==
    \/ a[1] < b[1]
    \/ a[1] = b[1] /\ a[2] < b[2]
    \/ a[1] = b[1] /\ a[2] = b[2] /\ a[3] <= b[3]

MinDate == <<2000, 1, 1>>

MaxDate == <<2100, 1, 1>>

\* the default abs_tol of _approx_equal, 0.01, in hundredths
AbsTol == 1

\* the default rel_tol of _approx_equal is 1 / RelTolDen
RelTolDen == 100

\* an _approx_equal that rejects a difference of exactly the tolerance
_approx_equalStrict(a, b) ==
    IF a = None \/ b = None THEN FALSE
    ELSE LET diff == Abs(a.n - b.n)
         IN  RelTolDen * diff < Max(RelTolDen * AbsTol, Max(Abs(a.n), Abs(b.n)))

\* _approx_equal(a, b) on numbers counted in hundredths:
\* diff <= max(abs_tol, rel_tol * max(|a|, |b|)), both sides times RelTolDen
_approx_equal(a, b) ==
    IF a = None \/ b = None THEN FALSE
    ELSE LET diff == Abs(a.n - b.n)
         IN  RelTolDen * diff <= Max(RelTolDen * AbsTol, Max(Abs(a.n), Abs(b.n)))

\* the concatenation of the sequences f[1], ..., f[n]
RECURSIVE Concat(_, _)
Concat(f, n) == IF n = 0 THEN <<>> ELSE Concat(f, n - 1) \o f[n]

\* lines 40-42
MissingFieldErrors(invoice) ==
    Concat([i \in 1..Len(REQUIRED_FIELDS) |->
               IF NoneOrEmpty(invoice[REQUIRED_FIELDS[i]])
               THEN <<"missing_field: " \o REQUIRED_FIELDS[i]>>
               ELSE <<>>],
           Len(REQUIRED_FIELDS))

\* the date checks with the two ends of the range left out of it
DateErrorsExclusive(invoice, field) ==
    LET raw    == PyOr(invoice[field], EmptyStr)
        parsed == _parse_date(raw)
    IN  IF Truthy(raw) /\ parsed = NoDate THEN <<"invalid_format: " \o field>>
        ELSE IF parsed # NoDate /\ (DateLE(parsed, MinDate) \/ DateLE(MaxDate, parsed))
             THEN <<"out_of_range: " \o field>>
             ELSE <<>>

\* lines 44-50 and 52-58, field is "invoice_date" or "due_date"
DateErrors(invoice, field) ==
    LET raw    == PyOr(invoice[field], EmptyStr)
        parsed == _parse_date(raw)
    IN  IF Truthy(raw) /\ parsed = NoDate THEN <<"invalid_format: " \o field>>
        ELSE IF parsed # NoDate /\ ~(DateLE(MinDate, parsed) /\ DateLE(parsed, MaxDate))
             THEN <<"out_of_range: " \o field>>
             ELSE <<>>

AllowedCurrencies ==
    { <<"I", "N", "R">>, <<"E", "U", "R">>, <<"U", "S", "D">>,
      <<"G", "B", "P">>, <<"C", "H", "F">>, <<"J", "P", "Y">> }

\* a currency check that compares the code as written, without upper()
CurrencyErrorsCaseSensitive(invoice) ==
    LET currency == invoice["currency"] IN
    IF Truthy(currency)
    THEN IF currency.s \notin AllowedCurrencies
         THEN <<"invalid_value: currency">>
         ELSE <<>>
    ELSE <<"missing_field: currency">>

\* lines 60-66
CurrencyErrors(invoice) ==
    LET currency == invoice["currency"] IN
    IF Truthy(currency)
    THEN IF Upper(currency.s) \notin AllowedCurrencies
         THEN <<"invalid_value: currency">>
         ELSE <<>>
    ELSE <<"missing_field: currency">>

AmountFields == <<"net_total", "tax_amount", "gross_total">>

\* lines 68-71
NegativeErrors(invoice) ==
    Concat([i \in 1..Len(AmountFields) |->
               LET val == invoice[AmountFields[i]] IN
               IF IsNumber(val) /\ val.n < 0
               THEN <<"anomaly:negative_" \o AmountFields[i]>>
               ELSE <<>>],
           Len(AmountFields))

\* lines 73-79
TotalsErrors(invoice) ==
    LET net_total   == invoice["net_total"]
        tax_amount  == invoice["tax_amount"]
        gross_total == invoice["gross_total"]
    IN  IF /\ IsNumber(net_total) /\ IsNumber(tax_amount) /\ IsNumber(gross_total)
           /\ ~_approx_equal(Num(net_total.n + tax_amount.n), gross_total)
        THEN <<"business_rule_failed: totals_mismatch">>
        ELSE <<>>

\* line_sum of lines 82-88: the sum of the numeric line totals
RECURSIVE LineSum(_)
LineSum(line_items) ==
    IF line_items = <<>> THEN 0
    ELSE LET lt == line_items[Len(line_items)]["line_total"]
         IN  LineSum(SubSeq(line_items, 1, Len(line_items) - 1))
                 + (IF IsNumber(lt) THEN lt.n ELSE 0)

\* lines 81-91
LineItemsErrors(invoice) ==
    LET line_items     == invoice["line_items"]
        net_total      == invoice["net_total"]
        any_line_total == \E i \in 1..Len(line_items) :
                              IsNumber(line_items[i]["line_total"])
    IN  IF /\ any_line_total /\ IsNumber(net_total)
           /\ ~_approx_equal(Num(LineSum(line_items)), net_total)
        THEN <<"business_rule_failed: line_items_sum_mismatch">>
        ELSE <<>>

\* lines 93-95
DateOrderErrors(invoice) ==
    LET inv_date == _parse_date(PyOr(invoice["invoice_date"], EmptyStr))
        due_date == _parse_date(PyOr(invoice["due_date"], EmptyStr))
    IN  IF /\ inv_date # NoDate /\ due_date # NoDate
           /\ ~DateLE(inv_date, due_date)
        THEN <<"business_rule_failed: due_before_invoice_date">>
        ELSE <<>>

Unknown == Str(<<"<", "u", "n", "k", "n", "o", "w", "n", ">">>)

\* line 97
InvoiceId(invoice) ==
    PyOr(invoice["invoice_number"], PyOr(invoice["_source_file"], Unknown))

\* a validate_invoice that returns at the first rule that reports an error
InvoiceErrorsShortCircuit(invoice) ==
    IF MissingFieldErrors(invoice) # <<>> THEN MissingFieldErrors(invoice)
    ELSE IF DateErrors(invoice, "invoice_date") # <<>>
         THEN DateErrors(invoice, "invoice_date")
    ELSE IF DateErrors(invoice, "due_date") # <<>>
         THEN DateErrors(invoice, "due_date")
    ELSE IF CurrencyErrors(invoice) # <<>> THEN CurrencyErrors(invoice)
    ELSE IF NegativeErrors(invoice) # <<>> THEN NegativeErrors(invoice)
    ELSE IF TotalsErrors(invoice) # <<>> THEN TotalsErrors(invoice)
    ELSE IF LineItemsErrors(invoice) # <<>> THEN LineItemsErrors(invoice)
    ELSE DateOrderErrors(invoice)

\* the errors list of validate_invoice at its return
InvoiceErrors(invoice) ==
    MissingFieldErrors(invoice)
        \o DateErrors(invoice, "invoice_date")
        \o DateErrors(invoice, "due_date")
        \o CurrencyErrors(invoice)
        \o NegativeErrors(invoice)
        \o TotalsErrors(invoice)
        \o LineItemsErrors(invoice)
        \o DateOrderErrors(invoice)

validate_invoice(invoice) ==
    LET errors == InvoiceErrors(invoice) IN
    [ invoice_id |-> InvoiceId(invoice),
      is_valid   |-> Len(errors) = 0,
      errors     |-> errors ]

\* the key of lines 117-121
DuplicateKey(inv) ==
    << PyOr(inv["invoice_number"], EmptyStr),
       PyOr(inv["seller_name"], EmptyStr),
       PyOr(inv["invoice_date"], EmptyStr) >>

\* the keys of key_counts in the order key_counts.items() yields them: the
\* order of their first occurrence in the batch
RECURSIVE KeyOrder(_)
KeyOrder(invs) ==
    IF invs = <<>> THEN <<>>
    ELSE LET front == KeyOrder(SubSeq(invs, 1, Len(invs) - 1))
             key   == DuplicateKey(invs[Len(invs)])
         IN  IF \E i \in 1..Len(front) : front[i] = key
             THEN front
             ELSE Append(front, key)

\* key_counts[key] after lines 115-122
KeyCount(invs, key) ==
    Cardinality({i \in 1..Len(invs) : DuplicateKey(invs[i]) = key})

\* a pass that replaces the errors of a flagged result instead of appending
FlagResultsOverwrite(res, inv_num) ==
    [i \in 1..Len(res) |->
        IF Truthy(inv_num) /\ res[i].invoice_id = inv_num
        THEN [res[i] EXCEPT !.errors = <<"anomaly:duplicate_invoice">>,
                            !.is_valid = FALSE]
        ELSE res[i]]

\* a loop over the results that stops at the first result it flags
FlagResultsFirstOnly(res, inv_num) ==
    [i \in 1..Len(res) |->
        IF /\ Truthy(inv_num) /\ res[i].invoice_id = inv_num
           /\ \A j \in 1..(i - 1) : res[j].invoice_id # inv_num
        THEN [res[i] EXCEPT !.errors = Append(@, "anomaly:duplicate_invoice"),
                            !.is_valid = FALSE]
        ELSE res[i]]

\* lines 126-129, for one key of the loop of line 124
FlagResults(res, inv_num) ==
    [i \in 1..Len(res) |->
        IF Truthy(inv_num) /\ res[i].invoice_id = inv_num
        THEN [res[i] EXCEPT !.errors = Append(@, "anomaly:duplicate_invoice"),
                            !.is_valid = FALSE]
        ELSE res[i]]

\* line 125
IsDuplicateGroup(invs, key) ==
    /\ KeyCount(invs, key) > 1
    /\ (Truthy(key[1]) \/ Truthy(key[2]) \/ Truthy(key[3]))

\* lines 124-129: the loop over the first n keys of key_counts
RECURSIVE DuplicatePass(_, _, _, _)
DuplicatePass(res, invs, keys, n) ==
    IF n = 0 THEN res
    ELSE LET before == DuplicatePass(res, invs, keys, n - 1)
         IN  IF IsDuplicateGroup(invs, keys[n])
             THEN FlagResults(before, keys[n][1])
             ELSE before

\* a Counter.update(set(errors)): an error a result carries twice counts once
RECURSIVE CounterUpdateDistinct(_, _)
CounterUpdateDistinct(counter, errors) ==
    IF errors = <<>> THEN counter
    ELSE LET e    == Head(errors)
             rest == Tail(errors)
             c    == IF \E i \in 1..Len(rest) : rest[i] = e THEN counter
                     ELSE IF e \in DOMAIN counter
                          THEN [counter EXCEPT ![e] = @ + 1]
                          ELSE counter @@ (e :> 1)
         IN  CounterUpdateDistinct(c, rest)

\* Counter.update(errors), one element at a time
RECURSIVE CounterUpdate(_, _)
CounterUpdate(counter, errors) ==
    IF errors = <<>> THEN counter
    ELSE LET e == Head(errors)
             c == IF e \in DOMAIN counter
                  THEN [counter EXCEPT ![e] = @ + 1]
                  ELSE counter @@ (e :> 1)
         IN  CounterUpdate(c, Tail(errors))

\* lines 136-138: error_counts after the first n results
RECURSIVE ErrorCounts(_, _)
ErrorCounts(res, n) ==
    IF n = 0 THEN <<>>
    ELSE CounterUpdate(ErrorCounts(res, n - 1), res[n].errors)

\* lines 131-145
Summarize(res) ==
    LET total   == Len(res)
        invalid == Cardinality({i \in 1..Len(res) : ~res[i].is_valid})
    IN  [ total_invoices   |-> total,
          valid_invoices   |-> total - invalid,
          invalid_invoices |-> invalid,
          error_counts     |-> ErrorCounts(res, Len(res)) ]

\* a loop that validates an invoice only when no equal invoice came before it
RECURSIVE ValidateEachDedup(_)
ValidateEachDedup(invs) ==
    IF invs = <<>> THEN <<>>
    ELSE LET front == SubSeq(invs, 1, Len(invs) - 1)
             last  == invs[Len(invs)]
         IN  IF \E i \in 1..Len(front) : front[i] = last
             THEN ValidateEachDedup(front)
             ELSE Append(ValidateEachDedup(front), validate_invoice(last))

\* lines 109-113
ValidateEach(invs) == [i \in 1..Len(invs) |-> validate_invoice(invs[i])]

validate_invoices(invs) ==
    LET keys  == KeyOrder(invs)
        final == DuplicatePass(ValidateEach(invs), invs, keys, Len(keys))
    IN  [results |-> final, summary |-> Summarize(final)]

---------------------------------------------------------------------------
(* extractor.py *)

\* the characters of the class [₹$€£], line 35
CurrencyGlyphs == {"₹", "$", "€", "£"}

\* s with the characters of the set chars taken out
Without(s, chars) ==
    LET Kept(c) == c \notin chars IN SelectSeq(s, Kept)

\* s.replace(old, new) for single characters
Replace(s, old, new) == [i \in 1..Len(s) |-> IF s[i] = old THEN new ELSE s[i]]

\* c in s
Contains(s, c) == \E i \in 1..Len(s) : s[i] = c

RECURSIVE Pow10(_)
Pow10(k) == IF k = 0 THEN 1 ELSE 10 * Pow10(k - 1)

\* the float m / 10^f.  With at most two places it is the number in
\* hundredths; a float with more places keeps its digits and their number,
\* trailing zeros dropped, so that equal floats are equal values
RECURSIVE Float(_, _)
Float(m, f) ==
    IF f <= 2 THEN Num(m * Pow10(2 - f))
    ELSE IF m % 10 = 0 THEN Float(m \div 10, f - 1)
    ELSE [tag |-> "num", n |-> m, places |-> f]

\* what float(s) gives for a text that is no number
ValueError == [tag |-> "ValueError"]

\* float(s) for a text of signs, digits, points and other characters that
\* are no part of a number: an optional sign, then digits with at most one
\* point among them and at least one digit.  Exponents, "inf", "nan",
\* underscores and white space other than the space are outside the
\* characters the inputs are made of.
PyFloat(s) ==
    LET signed == s # <<>> /\ Head(s) \in {"+", "-"}
        body   == IF signed THEN Tail(s) ELSE s
        parts  == SplitOn(body, ".")
        whole  == parts[1]
        frac   == IF Len(parts) = 2 THEN parts[2] ELSE <<>>
        m      == ToInt(whole \o frac)
    IN  IF /\ Len(parts) <= 2
           /\ \A i \in 1..Len(whole) : IsDigit(whole[i])
           /\ \A i \in 1..Len(frac) : IsDigit(frac[i])
           /\ whole \o frac # <<>>
        THEN Float(IF signed /\ Head(s) = "-" THEN 0 - m ELSE m, Len(frac))
        ELSE ValueError

\* lines 38-43 with the first replace of line 40 left out
DecimalPointKeepPoints(cleaned) ==
    IF Contains(cleaned, ",") /\ Contains(cleaned, ".")
    THEN Replace(cleaned, ",", ".")
    ELSE IF Contains(cleaned, ",")
    THEN Replace(cleaned, ",", ".")
    ELSE cleaned

\* lines 38-43: the European style, 1.285,20 -> 1285.20 and 64,00 -> 64.00
DecimalPoint(cleaned) ==
    IF Contains(cleaned, ",") /\ Contains(cleaned, ".")
    THEN Replace(Without(cleaned, {"."}), ",", ".")
    ELSE IF Contains(cleaned, ",")
    THEN Replace(cleaned, ",", ".")
    ELSE cleaned

\* _parse_float(value).  A value that is true and is no str has no strip:
\* the AttributeError is raised inside the try and caught, as is the
\* ValueError of float
_parse_float(value) ==
    IF ~Truthy(value) THEN None
    ELSE IF ~IsStr(value) THEN None
    ELSE LET stripped == Strip(value.s)
             noglyphs == Without(stripped, CurrencyGlyphs)
             cleaned  == Without(noglyphs, {" "})
             parsed   == PyFloat(DecimalPoint(cleaned))
         IN  IF parsed = ValueError THEN None ELSE parsed

\* re.search(word, ln, re.IGNORECASE) for a word of lower case letters
HasWord(ln, word) ==
    LET lowered == Lower(ln)
    IN  \E i \in 1..(Len(ln) - Len(word) + 1) :
            SubSeq(lowered, i, i + Len(word) - 1) = word

NonEmpty(s) == s # <<>>

\* line 205: the lines of the text, stripped, the empty ones dropped
StrippedLines(text) ==
    LET raw == SplitOn(text, "\n")
    IN  SelectSeq([i \in 1..Len(raw) |-> Strip(raw[i])], NonEmpty)

\* lines 208-211
IsHeaderLine(ln) ==
    /\ HasWord(ln, <<"d", "e", "s", "c", "r", "i", "p", "t", "i", "o", "n">>)
    /\ \/ HasWord(ln, <<"q", "t", "y">>) \/ HasWord(ln, <<"q", "u", "a", "n", "t", "i", "t", "y">>)
       \/ HasWord(ln, <<"r", "a", "t", "e">>) \/ HasWord(ln, <<"p", "r", "i", "c", "e">>)

\* lines 206-213: the index of the first header line, 0 for None
HeaderIndex(lines) ==
    LET headers == {i \in 1..Len(lines) : IsHeaderLine(lines[i])}
    IN  IF headers = {} THEN 0
        ELSE CHOOSE i \in headers : \A j \in headers : i <= j

\* ln.split()
Tokens(ln) == SelectSeq(SplitOn(ln, " "), NonEmpty)

\* " ".join(tokens)
RECURSIVE JoinSpaces(_)
JoinSpaces(tokens) ==
    IF Len(tokens) = 1 THEN tokens[1]
    ELSE JoinSpaces(SubSeq(tokens, 1, Len(tokens) - 1)) \o <<" ">> \o tokens[Len(tokens)]

\* lines 233-247: qty, unit_price and desc_tokens after the first n of the
\* leading tokens
RECURSIVE ScanTokens(_, _)
ScanTokens(leading, n) ==
    IF n = 0 THEN [qty |-> None, unit_price |-> None, desc_tokens |-> <<>>]
    ELSE LET before == ScanTokens(leading, n - 1)
             number == _parse_float(Str(leading[n]))
         IN  IF before.qty = None /\ number # None
             THEN [before EXCEPT !.qty = number]
             ELSE IF before.qty # None /\ before.unit_price = None /\ number # None
             THEN [before EXCEPT !.unit_price = number]
             ELSE [before EXCEPT !.desc_tokens = Append(@, leading[n])]

\* lines 225-257, one line past the test for "total": the item appended for
\* it, if one is
ItemOf(ln) ==
    LET parts == Tokens(ln) IN
    IF parts = <<>> THEN <<>>
    ELSE LET maybe_total == _parse_float(Str(parts[Len(parts)]))
             scanned     == ScanTokens(SubSeq(parts, 1, Len(parts) - 1), Len(parts) - 1)
         IN  IF maybe_total = None THEN <<>>
             ELSE << [ description |-> IF scanned.desc_tokens # <<>>
                                       THEN Str(JoinSpaces(scanned.desc_tokens))
                                       ELSE Str(<<"I", "t", "e", "m">>),
                       quantity    |-> scanned.qty,
                       unit_price  |-> scanned.unit_price,
                       line_total  |-> maybe_total ] >>

\* the loop of line 221 going on past a line with "total"
RECURSIVE ItemsFromPastTotals(_, _)
ItemsFromPastTotals(lines, i) ==
    IF i > Len(lines) THEN <<>>
    ELSE IF HasWord(lines[i], <<"t", "o", "t", "a", "l">>)
    THEN ItemsFromPastTotals(lines, i + 1)
    ELSE ItemOf(lines[i]) \o ItemsFromPastTotals(lines, i + 1)

\* lines 221-257: the items of lines[i], lines[i + 1], ..., up to the first
\* line with "total"
RECURSIVE ItemsFrom(_, _)
ItemsFrom(lines, i) ==
    IF i > Len(lines) THEN <<>>
    ELSE IF HasWord(lines[i], <<"t", "o", "t", "a", "l">>) THEN <<>>
    ELSE ItemOf(lines[i]) \o ItemsFrom(lines, i + 1)

\* extract_line_items(text)
extract_line_items(text) ==
    LET lines        == StrippedLines(text)
        header_index == HeaderIndex(lines)
    IN  IF header_index = 0 THEN <<>> ELSE ItemsFrom(lines, header_index + 1)

PdfSuffix == <<".", "p", "d", "f">>

\* lines 270-287: the invoice appended for a document whose text cannot be read
FailedInvoice(fname) ==
    [ invoice_number    |-> None,
      invoice_date      |-> None,
      due_date          |-> None,
      seller_name       |-> None,
      seller_tax_id     |-> None,
      buyer_name        |-> None,
      buyer_tax_id      |-> None,
      currency          |-> None,
      net_total         |-> None,
      tax_amount        |-> None,
      gross_total       |-> None,
      line_items        |-> <<>>,
      _source_file      |-> Str(fname),
      _extraction_error |-> Bool(TRUE) ]

\* lines 290-297: doc.fields is what extract_basic_fields and
\* extract_line_items return for the text of the document
AssembledInvoice(doc) ==
    [doc.fields EXCEPT !["_source_file"] = Str(doc.fname),
                       !["_extraction_error"] = Bool(FALSE)]

\* a loop that drops a document whose text cannot be read
RECURSIVE ExtractLoopSkipFailed(_, _, _)
ExtractLoopSkipFailed(listing, failing, n) ==
    IF n = 0 THEN <<>>
    ELSE LET before == ExtractLoopSkipFailed(listing, failing, n - 1)
             doc    == listing[n]
         IN  IF ~EndsWith(Lower(doc.fname), PdfSuffix) THEN before
             ELSE IF doc.fname \in failing THEN before
                  ELSE Append(before, AssembledInvoice(doc))

\* lines 263-297: the loop over the first n entries of the listing; failing
\* is the set of file names for which extract_text_from_pdf raises
RECURSIVE ExtractLoop(_, _, _)
ExtractLoop(listing, failing, n) ==
    IF n = 0 THEN <<>>
    ELSE LET before == ExtractLoop(listing, failing, n - 1)
             doc    == listing[n]
         IN  IF ~EndsWith(Lower(doc.fname), PdfSuffix) THEN before
             ELSE IF doc.fname \in failing
                  THEN Append(before, FailedInvoice(doc.fname))
                  ELSE Append(before, AssembledInvoice(doc))

extract_invoices_from_pdfs(listing, failing) ==
    ExtractLoop(listing, failing, Len(listing))

---------------------------------------------------------------------------
(* cli.py *)

\* a command that returns success whatever the summary
ExitStatusAlwaysZero(s) == 0

\* lines 27 and 40
ExitStatus(s) == IF s["invalid_invoices"] = 0 THEN 0 ELSE 1

\* lines 21 and 34
Report(s, res) == [summary |-> s, results |-> res]

---------------------------------------------------------------------------
(* Inputs: the texts, invoices, batches and directory listings the         *)
(* specifications draw from                                                *)

\* the longest batch of invoices a validate command loads
MaxBatch == 4

\* the longest directory listing a full-run or extract command reads
MaxFiles == 3

TxtINV001 == <<"I", "N", "V", "-", "0", "0", "1">>

TxtSellerLtd == <<"S", "e", "l", "l", "e", "r", " ", "L", "t", "d">>

TxtBuyerLtd == <<"B", "u", "y", "e", "r", " ", "L", "t", "d">>

\* "2024-01-10"
Txt20240110 == <<"2", "0", "2", "4", "-", "0", "1", "-", "1", "0">>

\* "2024-01-20"
Txt20240120 == <<"2", "0", "2", "4", "-", "0", "1", "-", "2", "0">>

\* "10/01/2024"
Txt10Jan2024 == <<"1", "0", "/", "0", "1", "/", "2", "0", "2", "4">>

\* "09/01/2024"
Txt09Jan2024 == <<"0", "9", "/", "0", "1", "/", "2", "0", "2", "4">>

\* "1999-12-31"
Txt19991231 == <<"1", "9", "9", "9", "-", "1", "2", "-", "3", "1">>

TxtSoon == <<"s", "o", "o", "n">>

TxtINR == <<"I", "N", "R">>

TxtEurLower == <<"e", "u", "r">>

TxtXYZ == <<"X", "Y", "Z">>

LineItem(line_total) ==
    [ description |-> Str(<<"I", "t", "e", "m", " ", "A">>),
      quantity    |-> Num(100),
      unit_price  |-> Num(10000),
      line_total  |-> line_total ]

\* an invoice as json.load returns it; a key that is absent reads as None
Invoice(number, idate, ddate, seller, buyer, cur, net, tax, gross, items, file) ==
    [ invoice_number    |-> number,
      invoice_date      |-> idate,
      due_date          |-> ddate,
      seller_name       |-> seller,
      seller_tax_id     |-> None,
      buyer_name        |-> buyer,
      buyer_tax_id      |-> None,
      currency          |-> cur,
      net_total         |-> net,
      tax_amount        |-> tax,
      gross_total       |-> gross,
      line_items        |-> items,
      _source_file      |-> file,
      _extraction_error |-> None ]

\* the invoice of test_valid_invoice_passes
TestValidInvoice ==
    Invoice(Str(TxtINV001), Str(Txt20240110), Str(Txt20240120), Str(TxtSellerLtd),
            Str(TxtBuyerLtd), Str(TxtINR), Num(10000), Num(1800), Num(11800),
            <<LineItem(Num(10000))>>, None)

\* the invoice of test_missing_required_and_mismatch_totals
TestBadInvoice ==
    Invoice(EmptyStr, Str(Txt10Jan2024), Str(Txt09Jan2024), EmptyStr,
            Str(TxtBuyerLtd), Str(TxtXYZ), Num(10000), Num(1800), Num(15000),
            <<LineItem(Num(5000))>>, None)

\* the invoices the per-invoice specification validates: every combination
\* of these field values
InvoiceUniverse ==
    [ invoice_number    : {EmptyStr, Str(TxtINV001)},
      invoice_date      : {None, Str(Txt20240110), Str(Txt10Jan2024), Str(TxtSoon)},
      due_date          : {None, Str(Txt09Jan2024), Str(Txt20240120), Str(Txt19991231)},
      seller_name       : {EmptyStr, Str(TxtSellerLtd)},
      seller_tax_id     : {None},
      buyer_name        : {None, Str(TxtBuyerLtd)},
      buyer_tax_id      : {None},
      currency          : {None, Str(TxtINR), Str(TxtEurLower), Str(TxtXYZ)},
      net_total         : {None, Num(10000), Num(12300)},
      tax_amount        : {None, Num(1800), Num(-500)},
      gross_total       : {None, Num(11800), Num(15000)},
      line_items        : { <<>>, <<LineItem(Num(5000))>>, <<LineItem(Num(10000))>>,
                            <<LineItem(None), LineItem(Num(5000))>> },
      _source_file      : {None},
      _extraction_error : {None} ]

\* a valid invoice but for its number, seller and source file
KeyedInvoice(number, seller, file) ==
    Invoice(number, Str(Txt20240110), Str(Txt20240120), seller, Str(TxtBuyerLtd),
            Str(TxtINR), Num(10000), Num(1800), Num(11800), <<>>, file)

\* the invoices the batches of a validate command are made of
BatchInvoices ==
    { KeyedInvoice(Str(<<"A">>), Str(<<"S">>), None),
      KeyedInvoice(Str(<<"A">>), Str(<<"T">>), None),
      KeyedInvoice(EmptyStr, Str(<<"S">>), Str(<<"A">>)),
      KeyedInvoice(Str(<<"B">>), Str(<<"S">>), Str(<<"b", ".", "p", "d", "f">>)),
      Invoice(None, None, None, None, None, None, None, None, None, <<>>, None) }

RECURSIVE SeqsUpTo(_, _)
SeqsUpTo(S, n) ==
    IF n = 0 THEN {<<>>}
    ELSE LET shorter == SeqsUpTo(S, n - 1)
         IN  shorter \cup {Append(q, x) : q \in shorter, x \in S}

Batches == SeqsUpTo(BatchInvoices, MaxBatch)

\* the documents of a directory: the file name, and what extract_basic_fields
\* and extract_line_items find in the text of the document when it can be read
Documents ==
    { [fname  |-> <<"a", ".", "p", "d", "f">>,
       fields |-> KeyedInvoice(Str(<<"A">>), Str(<<"S">>), None)],
      [fname  |-> <<"b", ".", "P", "D", "F">>,
       fields |-> KeyedInvoice(Str(<<"A">>), Str(<<"S">>), None)],
      [fname  |-> <<"c", ".", "p", "d", "f">>,
       fields |-> Invoice(None, Str(Txt10Jan2024), None, Str(<<"S">>), None,
                          Str(TxtEurLower), Num(10000), None, Num(11800),
                          <<LineItem(Num(5000))>>, None)],
      [fname  |-> <<"n", ".", "t", "x", "t">>,
       fields |-> KeyedInvoice(Str(<<"B">>), Str(<<"S">>), None)] }

\* os.listdir: the documents of a directory, each once, in any order
Listings ==
    {l \in SeqsUpTo(Documents, MaxFiles) :
        \A i, j \in 1..Len(l) : i # j => l[i] # l[j]}

FileNames(listing) == {listing[i].fname : i \in 1..Len(listing)}

---------------------------------------------------------------------------
(* The commands *)

NotYet == <<>>

Init ==
    /\ pc = "start"
    /\ command = "none"
    /\ pdf_dir = <<>>
    /\ unreadable = {}
    /\ invoices = <<>>
    /\ results = <<>>
    /\ summary = NotYet
    /\ report = NotYet
    /\ output = NotYet
    /\ status = NotYet
    /\ arg = NotYet
    /\ ret = NotYet

\* cmd_validate, lines 17-18: the invoices are loaded from the input file
cmd_validate_load ==
    /\ pc = "start"
    /\ \E batch \in Batches : invoices' = batch
    /\ command' = "validate"
    /\ pc' = "validate_each"
    /\ UNCHANGED <<pdf_dir, unreadable, results, summary, report, output, status, arg, ret>>

\* cmd_full_run, line 31
cmd_full_run_extract ==
    /\ pc = "start"
    /\ \E listing \in Listings : \E failing \in SUBSET FileNames(listing) :
          /\ pdf_dir' = listing
          /\ unreadable' = failing
          /\ invoices' = extract_invoices_from_pdfs(listing, failing)
    /\ command' = "full-run"
    /\ pc' = "validate_each"
    /\ UNCHANGED <<results, summary, report, output, status, arg, ret>>

\* cmd_extract, lines 9-13
cmd_extract ==
    /\ pc = "start"
    /\ \E listing \in Listings : \E failing \in SUBSET FileNames(listing) :
          /\ pdf_dir' = listing
          /\ unreadable' = failing
          /\ invoices' = extract_invoices_from_pdfs(listing, failing)
    /\ output' = <<invoices'>>
    /\ status' = <<0>>
    /\ command' = "extract"
    /\ pc' = "done"
    /\ UNCHANGED <<results, summary, report, arg, ret>>

\* validate_invoices, lines 109-113
validate_each ==
    /\ pc = "validate_each"
    /\ results' = ValidateEach(invoices)
    /\ pc' = "duplicates"
    /\ UNCHANGED <<command, pdf_dir, unreadable, invoices, summary, report, output, status, arg, ret>>

\* validate_invoices, lines 115-129
duplicate_pass ==
    /\ pc = "duplicates"
    /\ LET keys == KeyOrder(invoices)
       IN  results' = DuplicatePass(results, invoices, keys, Len(keys))
    /\ pc' = "summarize"
    /\ UNCHANGED <<command, pdf_dir, unreadable, invoices, summary, report, output, status, arg, ret>>

\* validate_invoices, lines 131-147
summarize ==
    /\ pc = "summarize"
    /\ summary' = Summarize(results)
    /\ pc' = "write"
    /\ UNCHANGED <<command, pdf_dir, unreadable, invoices, results, report, output, status, arg, ret>>

\* cmd_validate, lines 21-23, and cmd_full_run, lines 34-36
write_report ==
    /\ pc = "write"
    /\ report' = <<Report(summary, results)>>
    /\ pc' = "return"
    /\ UNCHANGED <<command, pdf_dir, unreadable, invoices, results, summary, output, status, arg, ret>>

\* cmd_validate, line 27, and cmd_full_run, line 40
return_status ==
    /\ pc = "return"
    /\ status' = <<ExitStatus(summary)>>
    /\ pc' = "done"
    /\ UNCHANGED <<command, pdf_dir, unreadable, invoices, results, summary, report, output, arg, ret>>

Next ==
    \/ cmd_validate_load
    \/ cmd_full_run_extract
    \/ cmd_extract
    \/ validate_each
    \/ duplicate_pass
    \/ summarize
    \/ write_report
    \/ return_status

Spec == Init /\ [][Next]_vars

\* validate_invoice applied to one invoice of InvoiceUniverse
validate_one ==
    /\ pc = "start"
    /\ \E inv \in InvoiceUniverse :
          /\ invoices' = <<inv>>
          /\ results' = <<validate_invoice(inv)>>
    /\ command' = "validate_invoice"
    /\ pc' = "validated"
    /\ UNCHANGED <<pdf_dir, unreadable, summary, report, output, status, arg, ret>>

NextInvoice == validate_one

SpecInvoice == Init /\ [][NextInvoice]_vars

\* the values of net_total, tax_amount and gross_total the totals
\* specification draws from: absent, a text, and numbers in hundredths. The
\* numbers are whole units around the relative tolerance, or hundredths
\* around the absolute one; on every triple drawn from one of the two sets
\* the double-precision arithmetic of the code and the exact arithmetic
\* here give _approx_equal the same value
UnitSamples ==
    {None, Str(<<"1", "1", "8">>), Num(-100), Num(0), Num(50), Num(100), Num(200),
     Num(9900), Num(10000), Num(10100), Num(10200)}

CentSamples == {None, Num(0), Num(1), Num(2)}

\* invoices that are valid but for their three amounts
TotalsUniverse ==
    {[KeyedInvoice(Str(TxtINV001), Str(TxtSellerLtd), None)
         EXCEPT !["net_total"] = net, !["tax_amount"] = tax, !["gross_total"] = gross] :
        net \in UnitSamples, tax \in UnitSamples, gross \in UnitSamples}
    \cup
    {[KeyedInvoice(Str(TxtINV001), Str(TxtSellerLtd), None)
         EXCEPT !["net_total"] = net, !["tax_amount"] = tax, !["gross_total"] = gross] :
        net \in CentSamples, tax \in CentSamples, gross \in CentSamples}

\* validate_invoice applied to one invoice of TotalsUniverse
validate_totals ==
    /\ pc = "start"
    /\ \E inv \in TotalsUniverse :
          /\ invoices' = <<inv>>
          /\ results' = <<validate_invoice(inv)>>
    /\ command' = "validate_invoice"
    /\ pc' = "validated"
    /\ UNCHANGED <<pdf_dir, unreadable, summary, report, output, status, arg, ret>>

NextTotals == validate_totals

SpecTotals == Init /\ [][NextTotals]_vars

\* the longest text made of ParseAlphabet that _parse_float is given
MaxText == 4

ParseAlphabet == {"0", "1", ",", ".", "$", " ", "-"}

Txt118 == <<"1", "1", "8", ".", "0", "0">>

Txt1285European == <<"1", ".", "2", "8", "5", ",", "2", "0">>

Txt64Comma == <<"6", "4", ",", "0", "0">>

Txt1285American == <<"1", ",", "2", "8", "5", ".", "2", "0">>

\* the arguments of _parse_float: None, numbers, every text of up to MaxText
\* characters of ParseAlphabet, and longer amounts as invoices print them
ParseInputs ==
    {None, Num(0), Num(500)}
        \cup {Str(s) : s \in SeqsUpTo(ParseAlphabet, MaxText)}
        \cup {Str(Txt118), Str(Txt1285European), Str(Txt64Comma), Str(Txt1285American),
              Str(<<"₹", " ">> \o Txt1285European), Str(<<"€">> \o Txt64Comma \o <<" ">>),
              Str(<<"£", "+", "1", "8", " ", "0", "0", "0", ".", "5">>),
              Str(<<"1", ".", "2", ".", "3", ",", "4">>), Str(<<"1", ",", "2", ",", "3">>)}

\* _parse_float called on one of ParseInputs
parse_float ==
    /\ pc = "start"
    /\ \E value \in ParseInputs :
          /\ arg' = value
          /\ ret' = _parse_float(value)
    /\ command' = "_parse_float"
    /\ pc' = "returned"
    /\ UNCHANGED <<pdf_dir, unreadable, invoices, results, summary, report, output, status>>

NextParse == parse_float

SpecParse == Init /\ [][NextParse]_vars

\* the days the date texts are written from: the two ends of the accepted
\* range and their neighbours, two days in between, a leap day, and three
\* days no calendar has
SampleDays ==
    { <<1999, 12, 31>>, <<2000, 1, 1>>, <<2000, 2, 29>>, <<2024, 1, 9>>, <<2024, 1, 10>>,
      <<2100, 1, 1>>, <<2100, 1, 2>>, <<2100, 2, 29>>, <<2024, 2, 30>>, <<2023, 2, 29>> }

\* the decimal digits of n, two of them, or one when n is below ten and is
\* written without its zero
Numeral(n, padded) ==
    IF padded \/ n >= 10 THEN <<Digits[(n \div 10) + 1], Digits[(n % 10) + 1]>>
    ELSE <<Digits[n + 1]>>

\* the day written in the f-th format of _parse_date
DateText(day, f, padded) ==
    LET sep == <<DateFormats[f].sep>>
        y   == Numeral(day[1] \div 100, TRUE) \o Numeral(day[1] % 100, TRUE)
        m   == Numeral(day[2], padded)
        d   == Numeral(day[3], padded)
    IN  IF DateFormats[f].yearFirst
        THEN y \o sep \o m \o sep \o d
        ELSE d \o sep \o m \o sep \o y

\* the texts of SampleDays with the day they were written from
DateTable ==
    {[text |-> DateText(day, f, padded), day |-> day] :
        day \in SampleDays, f \in 1..Len(DateFormats), padded \in BOOLEAN}

\* the values of invoice_date and due_date: absent, empty, blank, texts that
\* are no dates, a date between spaces, and the texts of DateTable
DateSamples ==
    {None, EmptyStr, Str(<<" ">>), Str(TxtSoon),
     Str(<<" ">> \o Txt20240110 \o <<" ">>),
     Str(<<"1", "0", "-", "0", "1", "-", "2", "4">>),
     Str(<<"2", "0", "2", "4", "-", "1", "3", "-", "0", "1">>),
     Str(<<"2", "0", "2", "4", "0", "1", "1", "0">>)}
        \cup {Str(e.text) : e \in DateTable}

\* invoices that are valid but for their two dates
DatesUniverse ==
    {[KeyedInvoice(Str(TxtINV001), Str(TxtSellerLtd), None)
         EXCEPT !["invoice_date"] = idate, !["due_date"] = ddate] :
        idate \in DateSamples, ddate \in DateSamples}

\* validate_invoice applied to one invoice of DatesUniverse
validate_dates ==
    /\ pc = "start"
    /\ \E inv \in DatesUniverse :
          /\ invoices' = <<inv>>
          /\ results' = <<validate_invoice(inv)>>
    /\ command' = "validate_invoice"
    /\ pc' = "validated"
    /\ UNCHANGED <<pdf_dir, unreadable, summary, report, output, status, arg, ret>>

NextDates == validate_dates

SpecDates == Init /\ [][NextDates]_vars

\* the most lines a text given to extract_line_items has
MaxLines == 3

\* the lines the texts are made of, each with what it is: a header line, a
\* line with "total", and the item the line makes past a header
LineTable ==
    { [text |-> <<"D", "e", "s", "c", "r", "i", "p", "t", "i", "o", "n", " ", "Q", "t", "y", " ", "R", "a", "t", "e", " ", "A", "m", "o", "u", "n", "t">>,
       header |-> TRUE, total |-> FALSE,
       item |-> <<>>],
      [text |-> <<"I", "T", "E", "M", " ", "D", "E", "S", "C", "R", "I", "P", "T", "I", "O", "N", " ", " ", "P", "R", "I", "C", "E">>,
       header |-> TRUE, total |-> FALSE,
       item |-> <<>>],
      [text |-> <<"D", "e", "s", "c", "r", "i", "p", "t", "i", "o", "n", " ", "Q", "u", "a", "n", "t", "i", "t", "y", " ", "T", "o", "t", "a", "l">>,
       header |-> TRUE, total |-> TRUE,
       item |-> <<>>],
      [text |-> <<"D", "e", "s", "c", "r", "i", "p", "t", "i", "o", "n", " ", "o", "f", " ", "g", "o", "o", "d", "s">>,
       header |-> FALSE, total |-> FALSE,
       item |-> <<>>],
      [text |-> <<"W", "i", "d", "g", "e", "t", " ", "A", " ", "2", " ", "5", "0", "0", ".", "0", "0", " ", "1", ".", "0", "0", "0", ",", "0", "0">>,
       header |-> FALSE, total |-> FALSE,
       item |-> <<[description |-> Str(<<"W", "i", "d", "g", "e", "t", " ", "A">>), quantity |-> Num(200), unit_price |-> Num(50000), line_total |-> Num(100000)]>>],
      [text |-> <<"6", "4", ",", "0", "0">>,
       header |-> FALSE, total |-> FALSE,
       item |-> <<[description |-> Str(<<"I", "t", "e", "m">>), quantity |-> None, unit_price |-> None, line_total |-> Num(6400)]>>],
      [text |-> <<"3", " ", "B", "o", "l", "t", " ", "7", " ", "9", " ", "1", "2", ",", "5", "0">>,
       header |-> FALSE, total |-> FALSE,
       item |-> <<[description |-> Str(<<"B", "o", "l", "t", " ", "9">>), quantity |-> Num(300), unit_price |-> Num(700), line_total |-> Num(1250)]>>],
      [text |-> <<" ", "G", "i", "z", "m", "o", " ", " ", "$", "5", " ">>,
       header |-> FALSE, total |-> FALSE,
       item |-> <<[description |-> Str(<<"G", "i", "z", "m", "o">>), quantity |-> None, unit_price |-> None, line_total |-> Num(500)]>>],
      [text |-> <<"S", "u", "b", "t", "o", "t", "a", "l", " ", "1", "0", "0", "0", ".", "0", "0">>,
       header |-> FALSE, total |-> TRUE,
       item |-> <<>>],
      [text |-> <<>>,
       header |-> FALSE, total |-> FALSE,
       item |-> <<>>] }

SampleLines == {e.text : e \in LineTable}

\* "\n".join(lines)
RECURSIVE JoinLines(_)
JoinLines(lines) ==
    IF lines = <<>> THEN <<>>
    ELSE IF Len(lines) = 1 THEN lines[1]
    ELSE JoinLines(SubSeq(lines, 1, Len(lines) - 1)) \o <<"\n">> \o lines[Len(lines)]

\* the texts of up to MaxLines lines of SampleLines
SampleTexts == {JoinLines(lines) : lines \in SeqsUpTo(SampleLines, MaxLines)}

\* extract_line_items called on one of SampleTexts
extract_items ==
    /\ pc = "start"
    /\ \E text \in SampleTexts :
          /\ arg' = Str(text)
          /\ ret' = extract_line_items(text)
    /\ command' = "extract_line_items"
    /\ pc' = "returned"
    /\ UNCHANGED <<pdf_dir, unreadable, invoices, results, summary, report, output, status>>

NextItems == extract_items

SpecItems == Init /\ [][NextItems]_vars

---------------------------------------------------------------------------
(* Properties *)

DuplicateError == "anomaly:duplicate_invoice"

\* the number of occurrences of e in the sequence q
Count(q, e) == Cardinality({i \in 1..Len(q) : q[i] = e})

RECURSIVE SumTo(_, _)
SumTo(f, n) == IF n = 0 THEN 0 ELSE SumTo(f, n - 1) + f[n]

RECURSIVE SumOver(_, _)
SumOver(f, S) ==
    IF S = {} THEN 0
    ELSE LET x == CHOOSE y \in S : TRUE IN f[x] + SumOver(f, S \ {x})

\* a validate or full-run command is past the duplicate-detection pass
ResultsFinal ==
    command \in {"validate", "full-run"} /\ pc \in {"summarize", "write", "return", "done"}

\* a validate or full-run command has its summary
SummaryReady ==
    command \in {"validate", "full-run"} /\ pc \in {"write", "return", "done"}

\* the keys of the duplicate groups of the batch: more than one member, and
\* not entirely empty
DuplicateGroups ==
    {key \in {DuplicateKey(invoices[i]) : i \in 1..Len(invoices)} :
        /\ Cardinality({i \in 1..Len(invoices) : DuplicateKey(invoices[i]) = key}) > 1
        /\ key # <<EmptyStr, EmptyStr, EmptyStr>>}

\* C1: validate_invoices returns one result per invoice of the batch, in the
\* order of the batch, and its summary counts them: total_invoices is the
\* number of results, invalid_invoices the number of results that are not
\* valid, valid_invoices their difference, so that valid + invalid = total.
Thm_C1 ==
    SummaryReady =>
        /\ Len(results) = Len(invoices)
        /\ \A i \in 1..Len(invoices) :
              results[i].invoice_id = InvoiceId(invoices[i])
        /\ summary["total_invoices"] = Len(results)
        /\ summary["invalid_invoices"] =
              Cardinality({i \in 1..Len(results) : ~results[i].is_valid})
        /\ summary["valid_invoices"] =
              summary["total_invoices"] - summary["invalid_invoices"]
        /\ summary["valid_invoices"] + summary["invalid_invoices"] =
              summary["total_invoices"]

\* a summarized batch that holds the same invoice twice, a valid result and an
\* invalid one
Wit_C1 ==
    /\ SummaryReady
    /\ \E i, j \in 1..Len(invoices) : i # j /\ invoices[i] = invoices[j]
    /\ summary["valid_invoices"] > 0
    /\ summary["invalid_invoices"] > 0

\* the invoice that validate_one has validated, and its result
TheInvoice == invoices[1]

TheResult == results[1]

\* the six required fields are present and not empty, the currency is one of
\* the allowed codes, net_total + tax_amount is gross_total within the
\* tolerance and there are no line items
C2Premise(inv) ==
    /\ \A i \in 1..Len(REQUIRED_FIELDS) : ~NoneOrEmpty(inv[REQUIRED_FIELDS[i]])
    /\ IsStr(inv["currency"]) /\ Upper(inv["currency"].s) \in AllowedCurrencies
    /\ IsNumber(inv["net_total"]) /\ IsNumber(inv["tax_amount"])
    /\ IsNumber(inv["gross_total"])
    /\ _approx_equal(Num(inv["net_total"].n + inv["tax_amount"].n), inv["gross_total"])
    /\ inv["line_items"] = <<>>

InRange(d) == DateLE(MinDate, d) /\ DateLE(d, MaxDate)

\* the invoice date is a date of the accepted formats within the range, the due
\* date is absent or such a date not before the invoice date, and no amount
\* is negative
C2DatesAndSigns(inv) ==
    LET idate == _parse_date(PyOr(inv["invoice_date"], EmptyStr))
        ddate == _parse_date(PyOr(inv["due_date"], EmptyStr))
    IN  /\ idate # NoDate /\ InRange(idate)
        /\ \/ NoneOrEmpty(inv["due_date"])
           \/ ddate # NoDate /\ InRange(ddate) /\ DateLE(idate, ddate)
        /\ inv["net_total"].n >= 0 /\ inv["tax_amount"].n >= 0
        /\ inv["gross_total"].n >= 0

\* C2 as stated: an invoice with the six required fields present, an allowed
\* currency (here written exactly as the code lists it), reconciled totals and
\* no line items is valid, with no errors.
CE_C2 ==
    ( /\ pc = "validated"
      /\ C2Premise(TheInvoice)
      /\ TheInvoice["currency"].s \in AllowedCurrencies ) =>
        TheResult.is_valid /\ TheResult.errors = <<>>

\* C2, amended: such an invoice is valid, with no errors, when moreover its
\* invoice date parses and is in range, its due date is absent or parses, is
\* in range and is not before the invoice date, and no amount is negative.
Thm_C2 ==
    (pc = "validated" /\ C2Premise(TheInvoice) /\ C2DatesAndSigns(TheInvoice)) =>
        TheResult.is_valid /\ TheResult.errors = <<>>

\* such an invoice, validated, with its currency written in lower case
Wit_C2 ==
    /\ pc = "validated"
    /\ C2Premise(TheInvoice) /\ C2DatesAndSigns(TheInvoice)
    /\ TheInvoice["currency"] = Str(TxtEurLower)
    /\ TheInvoice["due_date"] # None
    /\ TheResult.is_valid

\* C3: after the duplicate-detection pass, for every duplicate group with a
\* non-empty invoice_number, every result whose invoice_id is that number
\* carries anomaly:duplicate_invoice and is invalid; two invoices with the same
\* key, all three parts of it non-empty, are both flagged and both invalid.
Thm_C3 ==
    ResultsFinal =>
        /\ \A key \in DuplicateGroups : \A i \in 1..Len(results) :
              (key[1] # EmptyStr /\ results[i].invoice_id = key[1]) =>
                  /\ Count(results[i].errors, DuplicateError) >= 1
                  /\ ~results[i].is_valid
        /\ \A i, j \in 1..Len(invoices) :
              ( /\ i # j
                /\ DuplicateKey(invoices[i]) = DuplicateKey(invoices[j])
                /\ \A k \in 1..3 : DuplicateKey(invoices[i])[k] # EmptyStr ) =>
                  /\ Count(results[i].errors, DuplicateError) >= 1
                  /\ Count(results[j].errors, DuplicateError) >= 1
                  /\ ~results[i].is_valid /\ ~results[j].is_valid

\* two invoices with the same entirely non-empty key, valid on their own, are
\* past the pass, both flagged
Wit_C3 ==
    /\ ResultsFinal
    /\ \E i, j \in 1..Len(invoices) :
          /\ i # j
          /\ DuplicateKey(invoices[i]) = DuplicateKey(invoices[j])
          /\ \A k \in 1..3 : DuplicateKey(invoices[i])[k] # EmptyStr
          /\ validate_invoice(invoices[i]).is_valid
          /\ ~results[i].is_valid /\ ~results[j].is_valid

\* the key of invoice i is the key of no other invoice of the batch
UniqueKey(i) ==
    \A j \in 1..Len(invoices) :
        j # i => DuplicateKey(invoices[j]) # DuplicateKey(invoices[i])

\* C4 as stated: an invoice whose key no other invoice of the batch shares is
\* left by the duplicate-detection pass as validate_invoice made it.
CE_C4 ==
    ResultsFinal =>
        \A i \in 1..Len(invoices) :
            UniqueKey(i) =>
                /\ results[i].errors = validate_invoice(invoices[i]).errors
                /\ results[i].is_valid = validate_invoice(invoices[i]).is_valid
                /\ Count(results[i].errors, DuplicateError) = 0

\* the required fields of the invoice that are None or empty
AbsentRequired(inv) ==
    {i \in 1..Len(REQUIRED_FIELDS) : NoneOrEmpty(inv[REQUIRED_FIELDS[i]])}

MissingFieldCodes ==
    {"missing_field: " \o REQUIRED_FIELDS[i] : i \in 1..Len(REQUIRED_FIELDS)}

\* C5 as stated: the errors of validate_invoice hold as many missing_field
\* entries as the invoice has absent required fields.
CE_C5 ==
    pc = "validated" =>
        Cardinality({k \in 1..Len(TheResult.errors) :
                        TheResult.errors[k] \in MissingFieldCodes})
            = Cardinality(AbsentRequired(TheInvoice))

IsPdf(fname) == EndsWith(Lower(fname), PdfSuffix)

\* the PDF documents of the listing, in its order
PdfDocuments == SelectSeq(pdf_dir, LAMBDA doc : IsPdf(doc.fname))

ExtractedFields ==
    <<"invoice_number", "invoice_date", "due_date", "seller_name", "seller_tax_id",
      "buyer_name", "buyer_tax_id", "currency", "net_total", "tax_amount",
      "gross_total">>

\* C6: extract_invoices_from_pdfs returns one invoice per PDF document, in
\* the order of the listing, whichever documents cannot be read; the invoice
\* of a document that cannot be read has _extraction_error true, every field
\* None, no line items and the file name as _source_file; once validated,
\* there is one result per document, and that of a failed document is
\* invalid with a missing_field error for each required field.
Thm_C6 ==
    (command \in {"full-run", "extract"}) =>
        /\ Len(invoices) = Len(PdfDocuments)
        /\ \A i \in 1..Len(invoices) :
              LET doc == PdfDocuments[i] IN
              /\ invoices[i]["_source_file"] = Str(doc.fname)
              /\ doc.fname \in unreadable =>
                    /\ invoices[i]["_extraction_error"] = Bool(TRUE)
                    /\ \A k \in 1..Len(ExtractedFields) :
                          invoices[i][ExtractedFields[k]] = None
                    /\ invoices[i]["line_items"] = <<>>
              /\ doc.fname \notin unreadable =>
                    /\ invoices[i]["_extraction_error"] = Bool(FALSE)
                    /\ \A k \in 1..Len(ExtractedFields) :
                          invoices[i][ExtractedFields[k]] = doc.fields[ExtractedFields[k]]
                    /\ invoices[i]["line_items"] = doc.fields["line_items"]
        /\ (command = "full-run" /\ pc # "validate_each") =>
              /\ Len(results) = Len(PdfDocuments)
              /\ \A i \in 1..Len(results) :
                    /\ results[i].invoice_id = InvoiceId(invoices[i])
                    /\ PdfDocuments[i].fname \in unreadable =>
                          /\ ~results[i].is_valid
                          /\ \A c \in MissingFieldCodes :
                                Count(results[i].errors, c) >= 1

\* a full run is done on a listing with a file that is no PDF, a PDF that
\* could not be read and, after it, a PDF that could
Wit_C6 ==
    /\ command = "full-run" /\ pc = "done"
    /\ \E i \in 1..Len(pdf_dir) : ~IsPdf(pdf_dir[i].fname)
    /\ \E i, j \in 1..Len(invoices) :
          /\ i < j
          /\ invoices[i]["_extraction_error"] = Bool(TRUE)
          /\ invoices[j]["_extraction_error"] = Bool(FALSE)
          /\ ~results[i].is_valid

\* C7 as stated: an invoice with an empty or absent invoice_number that is in
\* a duplicate group is not flagged by the duplicate-detection pass, which
\* leaves its is_valid as it was.
CE_C7 ==
    ResultsFinal =>
        \A i \in 1..Len(invoices) :
            ( /\ ~Truthy(invoices[i]["invoice_number"])
              /\ DuplicateKey(invoices[i]) \in DuplicateGroups ) =>
                /\ Count(results[i].errors, DuplicateError) = 0
                /\ results[i].is_valid = validate_invoice(invoices[i]).is_valid

\* the errors of each rule of validate_invoice taken alone, in rule order
RuleErrors(inv) ==
    << MissingFieldErrors(inv),
       DateErrors(inv, "invoice_date"),
       DateErrors(inv, "due_date"),
       CurrencyErrors(inv),
       NegativeErrors(inv),
       TotalsErrors(inv),
       LineItemsErrors(inv),
       DateOrderErrors(inv) >>

TestBadErrors ==
    << "missing_field: invoice_number",
       "missing_field: seller_name",
       "invalid_value: currency",
       "business_rule_failed: totals_mismatch",
       "business_rule_failed: line_items_sum_mismatch",
       "business_rule_failed: due_before_invoice_date" >>

\* C8: the errors of validate_invoice hold the error of every rule whose
\* condition holds, whichever other rules fired, and nothing else, with the
\* errors of an earlier rule before those of a later rule; the invoice of
\* test_missing_required_and_mismatch_totals gets its six errors and is
\* invalid.
Thm_C8 ==
    pc = "validated" =>
        LET rules == RuleErrors(TheInvoice)
            errs  == TheResult.errors
        IN  /\ \A r \in 1..Len(rules) : \A k \in 1..Len(rules[r]) :
                  Count(errs, rules[r][k]) >= 1
            /\ Len(errs) = SumTo([r \in 1..Len(rules) |-> Len(rules[r])], Len(rules))
            /\ \A r1, r2 \in 1..Len(rules) :
                  r1 < r2 =>
                      \A k1 \in 1..Len(rules[r1]) : \A k2 \in 1..Len(rules[r2]) :
                          \E i, j \in 1..Len(errs) :
                              i < j /\ errs[i] = rules[r1][k1] /\ errs[j] = rules[r2][k2]
            /\ TheResult.is_valid = (errs = <<>>)
            /\ TheInvoice = TestBadInvoice =>
                  errs = TestBadErrors /\ ~TheResult.is_valid

\* the invoice of test_missing_required_and_mismatch_totals, validated
Wit_C8 ==
    /\ pc = "validated"
    /\ TheInvoice = TestBadInvoice
    /\ Len(TheResult.errors) = 6

\* the number of occurrences of e in the errors of all the results
Occurrences(e) ==
    SumTo([i \in 1..Len(results) |-> Count(results[i].errors, e)], Len(results))

\* C9: error_counts maps every error that occurs in the final errors of some
\* result, and no other, to the number of its occurrences in all of them, and
\* its counts add up to the total length of the error lists.
Thm_C9 ==
    SummaryReady =>
        LET counts == summary["error_counts"] IN
        /\ DOMAIN counts =
              UNION {{results[i].errors[k] : k \in 1..Len(results[i].errors)} :
                        i \in 1..Len(results)}
        /\ \A e \in DOMAIN counts : counts[e] = Occurrences(e)
        /\ SumOver(counts, DOMAIN counts) =
              SumTo([i \in 1..Len(results) |-> Len(results[i].errors)], Len(results))

\* a summary over a result that carries anomaly:duplicate_invoice twice
Wit_C9 ==
    /\ SummaryReady
    /\ \E i \in 1..Len(results) : Count(results[i].errors, DuplicateError) = 2
    /\ summary["error_counts"][DuplicateError] >= 4

\* C10: when a validate or full-run command has returned, the report
\* {summary, results} is written, and the status is 0 if no result is
\* invalid and 1 otherwise.
Thm_C10 ==
    (command \in {"validate", "full-run"} /\ status # NotYet) =>
        /\ report = <<[summary |-> summary, results |-> results]>>
        /\ summary["invalid_invoices"] =
              Cardinality({i \in 1..Len(results) : ~results[i].is_valid})
        /\ (status = <<0>>) <=> (\A i \in 1..Len(results) : results[i].is_valid)
        /\ (status = <<1>>) <=> (\E i \in 1..Len(results) : ~results[i].is_valid)

\* a command has returned 1 with its report written
Wit_C10 ==
    /\ command \in {"validate", "full-run"}
    /\ status = <<1>>
    /\ report # NotYet
    /\ report[1]["summary"]["invalid_invoices"] >= 1

\* q is p followed by zero or more entries, each of them e
IsExtendedBy(p, q, e) ==
    /\ Len(q) >= Len(p)
    /\ SubSeq(q, 1, Len(p)) = p
    /\ \A k \in (Len(p) + 1)..Len(q) : q[k] = e

\* C12: in every result of validate_invoices, is_valid is true exactly when
\* errors is empty, and errors is the list validate_invoice made for the
\* invoice, unchanged and in order, followed by zero or more
\* anomaly:duplicate_invoice entries; a result validate_invoice made invalid
\* stays invalid.
Thm_C12 ==
    ResultsFinal =>
        \A i \in 1..Len(results) :
            LET alone == validate_invoice(invoices[i]) IN
            /\ results[i].is_valid = (results[i].errors = <<>>)
            /\ IsExtendedBy(alone.errors, results[i].errors, DuplicateError)
            /\ ~alone.is_valid => ~results[i].is_valid

\* past the pass, a result that had an error of its own has been flagged, and
\* another result has been left valid
Wit_C12 ==
    /\ ResultsFinal
    /\ \E i, j \in 1..Len(results) :
          /\ validate_invoice(invoices[i]).errors # <<>>
          /\ Len(results[i].errors) > Len(validate_invoice(invoices[i]).errors)
          /\ results[j].is_valid

TotalsMismatch == "business_rule_failed: totals_mismatch"

\* the three amounts of the invoice are numbers
AllNumeric(inv) ==
    /\ inv["net_total"].tag = "num"
    /\ inv["tax_amount"].tag = "num"
    /\ inv["gross_total"].tag = "num"

\* |x|
Magnitude(x) == IF x >= 0 THEN x ELSE 0 - x

\* |s - g| > max(0.01, 0.01 * max(|s|, |g|)) for s and g in hundredths: both
\* sides of the inequality times 10000
ExceedsTolerance(s, g) ==
    LET larger == IF Magnitude(s) >= Magnitude(g) THEN Magnitude(s) ELSE Magnitude(g)
        bound  == IF larger >= 100 THEN larger ELSE 100
    IN  100 * Magnitude(s - g) > bound

\* C13: validate_invoice reports totals_mismatch, once, exactly when the three
\* amounts are numbers and |(net + tax) - gross| exceeds
\* max(0.01, 0.01 * max(|net + tax|, |gross|)); when one of them is absent or
\* is no number the rule is skipped.
Thm_C13 ==
    pc = "validated" =>
        LET inv == TheInvoice
            n   == Count(TheResult.errors, TotalsMismatch)
        IN  /\ n <= 1
            /\ ~AllNumeric(inv) => n = 0
            /\ AllNumeric(inv) =>
                  ((n = 1) <=> ExceedsTolerance(inv["net_total"].n + inv["tax_amount"].n,
                                                inv["gross_total"].n))

\* an invoice whose totals differ by exactly the tolerance, one hundredth of
\* the larger side, is validated without a mismatch
Wit_C13 ==
    /\ pc = "validated"
    /\ AllNumeric(TheInvoice)
    /\ TheInvoice["net_total"].n + TheInvoice["tax_amount"].n = 9900
    /\ TheInvoice["gross_total"].n = 10000
    /\ Count(TheResult.errors, TotalsMismatch) = 0

\* the text the amount is read from: the currency glyphs and the spaces of s
\* dropped, every '.' dropped when s has both ',' and '.', and every ','
\* turned into '.'
RECURSIVE NormalFrom(_, _)
NormalFrom(s, both) ==
    IF s = <<>> THEN <<>>
    ELSE LET c    == Head(s)
             rest == NormalFrom(Tail(s), both)
         IN  IF c \in CurrencyGlyphs \cup {" "} THEN rest
             ELSE IF c = "." /\ both THEN rest
             ELSE IF c = "," THEN <<".">> \o rest
             ELSE <<c>> \o rest

NormalText(s) ==
    NormalFrom(s, (\E i \in 1..Len(s) : s[i] = ",") /\ (\E i \in 1..Len(s) : s[i] = "."))

\* where the digits of t begin: past a leading sign
FirstDigit(t) == IF t # <<>> /\ t[1] \in {"+", "-"} THEN 2 ELSE 1

\* t is a decimal number: past an optional sign it has digits and at most one
\* point, and one digit at least
IsDecimalText(t) ==
    LET points == {i \in FirstDigit(t)..Len(t) : t[i] = "."}
        digits == {i \in FirstDigit(t)..Len(t) : t[i] \in {"0", "1", "2", "3", "4", "5", "6", "7", "8", "9"}}
    IN  /\ Cardinality(points) <= 1
        /\ digits # {}
        /\ points \cup digits = FirstDigit(t)..Len(t)

\* the number of digits of the decimal text t after its point
PlacesOf(t) ==
    IF \E i \in 1..Len(t) : t[i] = "."
    THEN Len(t) - (CHOOSE i \in 1..Len(t) : t[i] = ".")
    ELSE 0

\* 10^k times the number the decimal text t writes, k at least PlacesOf(t):
\* every digit times the power of ten of its position
ScaledText(t, k) ==
    LET point  == Len(t) - PlacesOf(t) + (IF \E i \in 1..Len(t) : t[i] = "." THEN 0 ELSE 1)
        weight == [i \in 1..Len(t) |->
                      IF ~IsDigit(t[i]) THEN 0
                      ELSE IF i < point
                      THEN DigitVal(t[i]) * Pow10(k + (point - 1 - i))
                      ELSE DigitVal(t[i]) * Pow10(k - (i - point))]
        total  == SumTo(weight, Len(t))
    IN  IF t[1] = "-" THEN 0 - total ELSE total

\* 10^k times the number v, k at least the places of v and at least 2
ScaledNumber(v, k) ==
    IF "places" \in DOMAIN v THEN v.n * Pow10(k - v.places) ELSE v.n * Pow10(k - 2)

\* C11: _parse_float always returns, None or a number; it returns None for
\* None, for the empty text and for a text whose normal form (glyphs and
\* spaces removed, '.' removed when ',' occurs too, ',' made the point) is no
\* decimal number, and otherwise the number the normal form writes; "118.00"
\* gives 118.00, "1.285,20" gives 1285.20 and "64,00" gives 64.00.
Thm_C11 ==
    (pc = "returned" /\ command = "_parse_float") =>
        /\ ret = None \/ ret.tag = "num"
        /\ (arg = None \/ arg = EmptyStr) => ret = None
        /\ arg.tag = "str" =>
              LET t == NormalText(arg.s)
                  k == IF PlacesOf(t) > 2 THEN PlacesOf(t) ELSE 2
              IN  /\ (ret = None) <=> ~IsDecimalText(t)
                  /\ ret # None => ScaledNumber(ret, k) = ScaledText(t, k)
        /\ arg = Str(Txt118) => ret = Num(11800)
        /\ arg = Str(Txt1285European) => ret = Num(128520)
        /\ arg = Str(Txt64Comma) => ret = Num(6400)

\* the European amount 1.285,20 has been parsed to 1285.20
Wit_C11 ==
    /\ pc = "returned"
    /\ command = "_parse_float"
    /\ arg = Str(Txt1285European)
    /\ ret = Num(128520)

\* the day has a place in the calendar; of the years of SampleDays, 2000 and
\* 2024 are leap years and 2100 is none
OnCalendar(day) ==
    /\ day[2] \in 1..12
    /\ day[3] >= 1
    /\ day[3] <= (CASE day[2] = 2 -> (IF day[1] \in {2000, 2024} THEN 29 ELSE 28)
                    [] day[2] \in {4, 6, 9, 11} -> 30
                    [] OTHER -> 31)

\* the entries of DateTable that write v, the spaces around v put aside
WrittenAs(v) ==
    IF v.tag = "str" THEN {e \in DateTable : e.text = Strip(v.s) /\ OnCalendar(e.day)} ELSE {}

\* v is a date in one of the accepted formats
IsDateText(v) == WrittenAs(v) # {}

\* the day of v, as one number: 20240110 for 10 January 2024
DayNumber(v) ==
    LET day == (CHOOSE e \in WrittenAs(v) : TRUE).day
    IN  10000 * day[1] + 100 * day[2] + day[3]

\* C14, one date field: at most one date error; invalid_format exactly for a
\* value that is not empty and is no date; out_of_range exactly for a date
\* before 2000-01-01 or after 2100-01-01; none for an absent or empty value
DateFieldChecked(field) ==
    LET v         == TheInvoice[field]
        malformed == Count(TheResult.errors, "invalid_format: " \o field)
        outside   == Count(TheResult.errors, "out_of_range: " \o field)
    IN  /\ malformed + outside <= 1
        /\ (malformed = 1) <=> (v \notin {None, EmptyStr} /\ ~IsDateText(v))
        /\ (outside = 1) <=>
              (IsDateText(v) /\ (DayNumber(v) < 20000101 \/ DayNumber(v) > 21000101))

DueBefore == "business_rule_failed: due_before_invoice_date"

\* C14: validate_invoice reports at most one date error for each of
\* invoice_date and due_date: invalid_format for a non-empty value in none of
\* the accepted formats, out_of_range for a date before 2000-01-01 or after
\* 2100-01-01 (both ends are in range), nothing for an absent or empty value;
\* it reports due_before_invoice_date, once, exactly when both values are
\* dates and due_date is strictly the earlier.
Thm_C14 ==
    pc = "validated" =>
        /\ DateFieldChecked("invoice_date")
        /\ DateFieldChecked("due_date")
        /\ Count(TheResult.errors, DueBefore) <= 1
        /\ (Count(TheResult.errors, DueBefore) = 1) <=>
              /\ IsDateText(TheInvoice["invoice_date"])
              /\ IsDateText(TheInvoice["due_date"])
              /\ DayNumber(TheInvoice["due_date"]) < DayNumber(TheInvoice["invoice_date"])

\* an invoice dated on the last day of the range and due on its first day
\* has been validated: neither date is out of range, and the order is wrong
Wit_C14 ==
    /\ pc = "validated"
    /\ IsDateText(TheInvoice["invoice_date"])
    /\ IsDateText(TheInvoice["due_date"])
    /\ DayNumber(TheInvoice["invoice_date"]) = 21000101
    /\ DayNumber(TheInvoice["due_date"]) = 20000101
    /\ Count(TheResult.errors, "out_of_range: invoice_date") = 0
    /\ Count(TheResult.errors, "out_of_range: due_date") = 0
    /\ Count(TheResult.errors, DueBefore) = 1

\* what LineTable says of each line of the text extract_line_items was given
Given ==
    LET lines == SplitOn(arg.s, "\n")
    IN  [i \in 1..Len(lines) |-> CHOOSE e \in LineTable : e.text = lines[i]]

\* the least number of the set S of line numbers, otherwise when S is empty
Least(S, otherwise) ==
    IF S = {} THEN otherwise ELSE CHOOSE i \in S : \A j \in S : i <= j

\* the first header line among the lines, 0 when there is none
FirstHeader(given) == Least({i \in 1..Len(given) : given[i].header}, 0)

\* the first line with "total" after the line h, or the line after the last
\* when there is none
FirstTotal(given, h) ==
    Least({j \in (h + 1)..Len(given) : given[j].total}, Len(given) + 1)

=============================================================================
